---------------------------- MODULE Spec2Model ----------------------------
(***************************************************************************)
(* Hybrid ranking and embedding engine of career_compass.                  *)
(*                                                                         *)
(*   src/server/ml/embeddings.ts   EmbeddingGenerator                      *)
(*   src/unnamed/part_002          RankingService                          *)
(*                                                                         *)
(* JavaScript numbers are modelled as fixed-point integers with ONE        *)
(* standing for 1.0; every arithmetic operation rounds its exact result to *)
(* the nearest representable value (ties to even), as IEEE-754 does.       *)
(* Strings are sequences of UTF-16 code units, arrays are sequences (the   *)
(* JavaScript index i is position i + 1).                                  *)
(***************************************************************************)
EXTENDS Integers, Sequences, FiniteSets, TLC

VARIABLES
    op,        \* the operation that ran last ("none" before any)
    args,      \* the arguments it was called with
    result,    \* what it returned or threw
    calls,     \* the callees it entered, in order
    svc,       \* the RankingService instance (its private fields)
    gen,       \* the EmbeddingGenerator instances (their private fields)
    embedLog,  \* the generateEmbedding calls made so far, in order, with their results
    batch,     \* the generateBatchEmbeddings call in flight
    heap,      \* the arrays in memory, by reference
    tasks,     \* the calls in progress on the shared instances, each with its locals
    wsRef,                 \* useWebSocket: wsRef.current, a socket or null
    reconnectTimeoutRef,   \* useWebSocket: reconnectTimeoutRef.current, a timer or null
    reconnectAttemptsRef,  \* useWebSocket: reconnectAttemptsRef.current
    isConnected,           \* useWebSocket: the isConnected state
    sockets,   \* the WebSocket objects created so far, each with its readyState
               \* and with how it came about
    timers,    \* the timers set so far, each pending, fired or cleared
    mounted,   \* whether the component using the hook is mounted
    stopped    \* disconnect() was called, and neither reconnect() nor a mount since

coreVars == <<op, args, result, calls, svc, gen, embedLog, batch>>

hookVars == <<wsRef, reconnectTimeoutRef, reconnectAttemptsRef, isConnected,
              sockets, timers, mounted, stopped>>

vars == <<coreVars, heap, tasks, hookVars>>

---------------------------------------------------------------------------
(* Bounds of the model *)

MaxVecLen == 2       \* longest embedding passed to cosineSimilarity
MaxTextLen == 3      \* longest text, in code units
MaxCalls == 3        \* generateEmbedding calls in one behaviour
MaxBatch == 2        \* longest list given to generateBatchEmbeddings
MaxWords == 2        \* most words in a text given to calculateBM25Score
MaxSkills == 2       \* longest skill list
MaxExp == 10         \* most years of experience
MaxPieces == 4       \* most pieces in a text given to tokenize
MaxTasks == 2        \* calls in progress at once on the shared instances
MaxSockets == 4      \* WebSocket objects created by one use of the hook
MaxReconnect == 2    \* largest maxReconnectAttempts passed to the hook

---------------------------------------------------------------------------
(* Numbers *)

ONE == 1000

Min(x, y) == IF x <= y THEN x ELSE y
Max(x, y) == IF x >= y THEN x ELSE y

\* n / d for d > 0, rounded to the nearest integer, ties to even
RoundDiv(n, d) ==
    LET q == n \div d
        r == n - q * d
    IN  IF 2 * r < d THEN q
        ELSE IF 2 * r > d THEN q + 1
        ELSE IF q % 2 = 0 THEN q ELSE q + 1

\* a * b
Mul(a, b) == RoundDiv(a * b, ONE)

\* a / b, b # 0
Div(a, b) == IF b > 0 THEN RoundDiv(a * ONE, b) ELSE RoundDiv(-(a * ONE), -b)

RECURSIVE SqrtSearch(_, _, _)
SqrtSearch(n, lo, hi) ==
    IF lo >= hi THEN lo
    ELSE LET mid == (lo + hi + 1) \div 2
         IN  IF mid * mid <= n THEN SqrtSearch(n, mid, hi)
             ELSE SqrtSearch(n, lo, mid - 1)

\* Math.sqrt(a), a >= 0
Sqrt(a) ==
    LET n == a * ONE
        f == SqrtSearch(n, 0, Min(n, 46340))
    IN  IF n - f * f <= f THEN f ELSE f + 1

---------------------------------------------------------------------------
(* Results of a call *)

NoValue == [kind |-> "none"]
Ok(v) == [kind |-> "ok", value |-> v]
Thrown(msg) == [kind |-> "error", message |-> msg]

MismatchMessage == "Vectors must have the same length"

---------------------------------------------------------------------------
(* EmbeddingGenerator.cosineSimilarity, embeddings.ts 21-41 *)

\* the three sums of the loop of lines 30-34 over positions lo..hi, summed by
\* halves
RECURSIVE SimRange(_, _, _, _)
SimRange(vec1, vec2, lo, hi) ==
    IF lo > hi THEN [dotProduct |-> 0, norm1 |-> 0, norm2 |-> 0]
    ELSE IF lo = hi
    THEN [dotProduct |-> Mul(vec1[lo], vec2[lo]),
          norm1 |-> Mul(vec1[lo], vec1[lo]),
          norm2 |-> Mul(vec2[lo], vec2[lo])]
    ELSE LET mid == (lo + hi) \div 2
             left == SimRange(vec1, vec2, lo, mid)
             right == SimRange(vec1, vec2, mid + 1, hi)
         IN  [dotProduct |-> left.dotProduct + right.dotProduct,
              norm1 |-> left.norm1 + right.norm1,
              norm2 |-> left.norm2 + right.norm2]

\* the loop of lines 30-34: the accumulators after the first n elements
SimLoop(vec1, vec2, n) == SimRange(vec1, vec2, 1, n)

\* the quotient with the first norm taken twice
SimQuotientOneNorm(acc) ==
    Div(acc.dotProduct, Mul(Sqrt(acc.norm1), Sqrt(acc.norm1)))

\* line 40
SimQuotient(acc) == Div(acc.dotProduct, Mul(Sqrt(acc.norm1), Sqrt(acc.norm2)))

\* without the length check of lines 22-24, over the common prefix
cosineSimilarityTruncating(vec1, vec2) ==
    LET acc == SimLoop(vec1, vec2, Min(Len(vec1), Len(vec2)))
    IN  IF acc.norm1 = 0 \/ acc.norm2 = 0 THEN Ok(0)
        ELSE Ok(SimQuotient(acc))

\* with a zero norm rejected instead of answered with 0
cosineSimilarityZeroThrows(vec1, vec2) ==
    IF Len(vec1) # Len(vec2) THEN Thrown(MismatchMessage)
    ELSE LET acc == SimLoop(vec1, vec2, Len(vec1))
         IN  IF acc.norm1 = 0 \/ acc.norm2 = 0 THEN Thrown("Zero vector")
             ELSE Ok(SimQuotient(acc))

cosineSimilarity(vec1, vec2) ==
    IF Len(vec1) # Len(vec2) THEN Thrown(MismatchMessage)
    ELSE LET acc == SimLoop(vec1, vec2, Len(vec1))
         IN  IF acc.norm1 = 0 \/ acc.norm2 = 0 THEN Ok(0)
             ELSE Ok(SimQuotient(acc))

---------------------------------------------------------------------------
(* Strings: sequences of UTF-16 code units *)

\* an argument the caller left out (undefined)
Missing == [present |-> FALSE]
Given(v) == [present |-> TRUE, value |-> v]

IsWhitespace(c) == c \in {9, 10, 11, 12, 13, 32}

\* String.prototype.toLowerCase, on the ASCII range
LowerChar(c) == IF c >= 65 /\ c <= 90 THEN c + 32 ELSE c
toLowerCase(str) == [i \in 1..Len(str) |-> LowerChar(str[i])]

RECURSIVE TrimStart(_)
TrimStart(str) ==
    IF str # <<>> /\ IsWhitespace(Head(str)) THEN TrimStart(Tail(str)) ELSE str

RECURSIVE TrimEnd(_)
TrimEnd(str) ==
    IF str # <<>> /\ IsWhitespace(str[Len(str)])
    THEN TrimEnd(SubSeq(str, 1, Len(str) - 1))
    ELSE str

\* String.prototype.trim
trim(str) == TrimEnd(TrimStart(str))

\* String.prototype.split(/\s+/): the pieces between the maximal runs of
\* whitespace; a run at either end leaves an empty piece there.
\* the positions where a piece starts: a unit that is not whitespace, at the
\* start of the string or after whitespace
PieceStarts(str) ==
    {i \in 1..Len(str) :
        ~IsWhitespace(str[i]) /\ (i = 1 \/ IsWhitespace(str[i - 1]))}

\* the last position of the piece that starts at i
PieceEnd(str, i) ==
    CHOOSE j \in i..Len(str) :
        /\ \A k \in i..j : ~IsWhitespace(str[k])
        /\ (j = Len(str) \/ IsWhitespace(str[j + 1]))

SplitWhitespace(str) ==
    LET starts == PieceStarts(str)
        nth(n) == CHOOSE i \in starts : Cardinality({j \in starts : j < i}) = n - 1
        pieces == [n \in 1..Cardinality(starts) |->
                      SubSeq(str, nth(n), PieceEnd(str, nth(n)))]
        first == IF IsWhitespace(str[1]) THEN <<<<>>>> ELSE <<>>
        last == IF IsWhitespace(str[Len(str)]) THEN <<<<>>>> ELSE <<>>
    IN  IF str = <<>> THEN <<<<>>>> ELSE first \o pieces \o last

---------------------------------------------------------------------------
(* EmbeddingGenerator.simpleHash, embeddings.ts 65-73 *)

\* one round of lines 68-70, ((hash << 5) - hash + char) wrapped to a signed
\* 32-bit integer; computed on 16-bit halves
HashStep(hash, char) ==
    LET lo == hash % 65536
        hi == (hash - lo) \div 65536
        lo2 == 31 * lo + char
        hi2 == 31 * hi + (lo2 \div 65536)
        hiw == ((hi2 + 32768) % 65536) - 32768
    IN  hiw * 65536 + (lo2 % 65536)

\* the loop of lines 67-71 from the state st of its variables i and hash
RECURSIVE HashLoop(_, _)
HashLoop(str, st) ==
    IF st.i >= Len(str) THEN st.hash
    ELSE HashLoop(str, [i |-> st.i + 1, hash |-> HashStep(st.hash, str[st.i + 1])])

\* let hash = 0 (line 66), the loop, return hash (line 72)
simpleHash(str) == HashLoop(str, [i |-> 0, hash |-> 0])

---------------------------------------------------------------------------
(* EmbeddingGenerator.generateEmbedding and hashBasedEmbedding *)

\* the array the previous call returned, in place of a new one
StaleArray(n) ==
    IF op = "generateEmbedding" /\ result.kind = "ok" /\ Len(result.value) = n
    THEN result.value
    ELSE [i \in 1..n |-> 0]

\* new Array(n).fill(0)
ZeroArray(n) == [i \in 1..n |-> 0]

\* the absolute value taken in 32 bits, where -2^31 is its own, and the
\* remainder with the sign of the dividend
BucketIndexIntAbs(hash, dim) ==
    IF hash = -2147483647 - 1 THEN -((((-(hash + 1)) % dim) + 1) % dim)
    ELSE IF hash >= 0 THEN hash % dim
    ELSE (-hash) % dim

\* Math.abs(hash) % dim, line 50 (Math.abs(-2^31) is 2^31)
BucketIndex(hash, dim) ==
    IF hash >= 0 THEN hash % dim ELSE (((-(hash + 1)) % dim) + 1) % dim

\* embedding[index] += value, line 51, for any integer index: an index from
\* the length on grows the array, and what is read there (undefined) plus the
\* value is not a number, as are the slots between; a negative index names a
\* property beside the elements and leaves them alone
AddAt(embedding, index, value) ==
    IF index >= 0 /\ index < Len(embedding)
    THEN [embedding EXCEPT ![index + 1] = @ + value]
    ELSE IF index >= Len(embedding)
    THEN [i \in 1..(index + 1) |->
             IF i <= Len(embedding) THEN embedding[i] ELSE -(ONE * ONE)]
    ELSE embedding

\* the body of the loop with the sign of the addend taken from the index
\* (signed feature hashing)
HashWordSigned(embedding, words, n, dim) ==
    LET hash == simpleHash(words[n])
        index == BucketIndex(hash, dim)
        sign == IF index % 2 = 0 THEN 1 ELSE -1
    IN  AddAt(embedding, index, sign * Div(ONE, Len(words) * ONE))

\* the body of the loop, lines 49-51, for word n
HashWord(embedding, words, n, dim) ==
    LET hash == simpleHash(words[n])
        index == BucketIndex(hash, dim)
    IN  AddAt(embedding, index, Div(ONE, Len(words) * ONE))

\* the loop of lines 48-52 over the first n words
RECURSIVE Accumulate(_, _, _)
Accumulate(words, n, dim) ==
    IF n = 0 THEN ZeroArray(dim)
    ELSE HashWord(Accumulate(words, n - 1, dim), words, n, dim)

\* embedding.reduce((sum, val) => sum + val * val, 0) over positions lo..hi,
\* summed by halves
RECURSIVE SumSquares(_, _, _)
SumSquares(embedding, lo, hi) ==
    IF lo > hi THEN 0
    ELSE IF lo = hi THEN Mul(embedding[lo], embedding[lo])
    ELSE LET mid == (lo + hi) \div 2
         IN  SumSquares(embedding, lo, mid) + SumSquares(embedding, mid + 1, hi)

\* lines 54-60
Normalize(embedding) ==
    LET norm == Sqrt(SumSquares(embedding, 1, Len(embedding)))
    IN  IF norm > 0
        THEN [i \in 1..Len(embedding) |-> Div(embedding[i], norm)]
        ELSE embedding

hashBasedEmbedding(self, text) ==
    LET words == SplitWhitespace(toLowerCase(text))
    IN  Normalize(Accumulate(words, Len(words), self.embeddingDim))

\* the test of line 9 without its trim()
IsBlankNoTrim(text) ==
    \/ ~text.present
    \/ text.value = <<>>

\* the test of line 9
IsBlank(text) ==
    \/ ~text.present
    \/ text.value = <<>>
    \/ Len(trim(text.value)) = 0

generateEmbedding(self, text) ==
    IF IsBlank(text) THEN ZeroArray(self.embeddingDim)
    ELSE hashBasedEmbedding(self, text.value)

---------------------------------------------------------------------------
(* RankingService.tokenize and getTermFrequency, part_002 106-120 *)

\* \w of a regular expression
IsWordChar(c) ==
    \/ (c >= 48 /\ c <= 57)
    \/ (c >= 65 /\ c <= 90)
    \/ (c >= 97 /\ c <= 122)
    \/ c = 95

\* .replace(/[^\w\s]/g, ' ')
ReplacePunctuation(str) ==
    [i \in 1..Len(str) |->
        IF IsWordChar(str[i]) \/ IsWhitespace(str[i]) THEN str[i] ELSE 32]

\* with tokens of 2 characters kept (token.length >= 2)
tokenizeKeepsTwo(text) ==
    SelectSeq(SplitWhitespace(ReplacePunctuation(toLowerCase(text))),
              LAMBDA token : Len(token) >= 2)

tokenize(text) ==
    SelectSeq(SplitWhitespace(ReplacePunctuation(toLowerCase(text))),
              LAMBDA token : Len(token) > 2)

Range(seq) == {seq[i] : i \in 1..Len(seq)}

getTermFrequency(tokens) ==
    [token \in Range(tokens) |->
        Cardinality({i \in 1..Len(tokens) : tokens[i] = token})]

---------------------------------------------------------------------------
(* RankingService.calculateBM25Score, part_002 50-77 *)

k1 == 1500
b == 750

\* the logarithm of half the argument: 1 / (1 + 1) in place of 2 / (1 + 1)
LnOfHalf(x) == IF x = ONE THEN -693 ELSE 0

\* the logarithm of twice the argument: 2 / 1 in place of 2 / (1 + 1)
LnOfDouble(x) == IF x = ONE THEN 693 ELSE 1386

\* Math.log at the two arguments line 69 can pass: 2 / (1 + 1) and 2 / (1 + 0)
Ln(x) == IF x = ONE THEN 0 ELSE 693

RECURSIVE SumOver(_, _)
SumOver(S, f) ==
    IF S = {} THEN 0
    ELSE LET x == CHOOSE y \in S : TRUE
         IN  f[x] + SumOver(S \ {x}, f)

\* the body of the loop of lines 66-74 for one term of the job
TermScore(term, resumeTermFreq, resumeLen, avgDocLength) ==
    LET tf == IF term \in DOMAIN resumeTermFreq THEN resumeTermFreq[term] ELSE 0
    IN  IF tf > 0
        THEN LET present == IF term \in DOMAIN resumeTermFreq THEN 1 ELSE 0
                 idf == Ln(Div(2 * ONE, (1 + present) * ONE))
                 numerator == Mul(tf * ONE, k1 + ONE)
                 denominator ==
                     tf * ONE
                       + Mul(k1, ONE - b + Mul(b, Div(resumeLen * ONE, avgDocLength)))
             IN  Mul(idf, Div(numerator, denominator))
        ELSE 0

\* 0 / 0: not a number, modelled as a value no score takes
NaN == -(ONE * ONE)

\* without the token-count guard of line 56: no job token divides 0 by 0
calculateBM25ScoreUnguarded(resumeText, jobText) ==
    IF \/ ~resumeText.present \/ resumeText.value = <<>>
       \/ ~jobText.present \/ jobText.value = <<>>
    THEN 0
    ELSE LET resumeTokens == tokenize(resumeText.value)
             jobTokens == tokenize(jobText.value)
         IN  IF Len(jobTokens) = 0 THEN NaN
             ELSE IF Len(resumeTokens) = 0 THEN 0
             ELSE LET resumeTermFreq == getTermFrequency(resumeTokens)
                      jobTerms == Range(jobTokens)
                      avgDocLength ==
                          Div((Len(resumeTokens) + Len(jobTokens)) * ONE, 2 * ONE)
                      score ==
                          SumOver(jobTerms,
                                  [term \in jobTerms |->
                                      TermScore(term, resumeTermFreq,
                                                Len(resumeTokens), avgDocLength)])
                  IN  Min(ONE, Div(score, Len(jobTokens) * 2 * ONE))

calculateBM25Score(resumeText, jobText) ==
    IF \/ ~resumeText.present \/ resumeText.value = <<>>
       \/ ~jobText.present \/ jobText.value = <<>>
    THEN 0
    ELSE LET resumeTokens == tokenize(resumeText.value)
             jobTokens == tokenize(jobText.value)
         IN  IF Len(resumeTokens) = 0 \/ Len(jobTokens) = 0 THEN 0
             ELSE LET resumeTermFreq == getTermFrequency(resumeTokens)
                      jobTerms == Range(jobTokens)
                      avgDocLength ==
                          Div((Len(resumeTokens) + Len(jobTokens)) * ONE, 2 * ONE)
                      score ==
                          SumOver(jobTerms,
                                  [term \in jobTerms |->
                                      TermScore(term, resumeTermFreq,
                                                Len(resumeTokens), avgDocLength)])
                  IN  Min(ONE, Div(score, Len(jobTokens) * 2 * ONE))

---------------------------------------------------------------------------
(* RankingService.calculateRuleBoost and its parts, part_002 88-150 *)

jaccardSimilarity(set1, set2) ==
    IF Len(set1) = 0 /\ Len(set2) = 0 THEN ONE
    ELSE IF Len(set1) = 0 \/ Len(set2) = 0 THEN 0
    ELSE LET s1 == Range(set1)
             s2 == Range(set2)
             intersection == {x \in s1 : x \in s2}
             union == s1 \cup s2
         IN  Div(Cardinality(intersection) * ONE, Cardinality(union) * ONE)

\* with absence tested by falsiness (!resumeExp || !jobMinExp), which 0 meets
calculateExperienceScoreFalsy(resumeExp, jobMinExp) ==
    IF \/ ~resumeExp.present \/ ~jobMinExp.present
       \/ resumeExp.value = 0 \/ jobMinExp.value = 0
    THEN ONE \div 2
    ELSE IF resumeExp.value >= jobMinExp.value
    THEN IF resumeExp.value <= jobMinExp.value + 2
         THEN ONE
         ELSE ONE - Min(300, Mul((resumeExp.value - jobMinExp.value - 2) * ONE, 50))
    ELSE ONE - Min(800, Mul((jobMinExp.value - resumeExp.value) * ONE, 200))

\* without the two years of grace: every year over the minimum is penalised
calculateExperienceScoreNoGrace(resumeExp, jobMinExp) ==
    IF ~resumeExp.present \/ ~jobMinExp.present THEN ONE \div 2
    ELSE IF resumeExp.value >= jobMinExp.value
    THEN ONE - Min(300, Mul((resumeExp.value - jobMinExp.value) * ONE, 50))
    ELSE ONE - Min(800, Mul((jobMinExp.value - resumeExp.value) * ONE, 200))

\* without the cap of 0.3 on the penalty for excess
calculateExperienceScoreUncappedExcess(resumeExp, jobMinExp) ==
    IF ~resumeExp.present \/ ~jobMinExp.present THEN ONE \div 2
    ELSE IF resumeExp.value >= jobMinExp.value
    THEN IF resumeExp.value <= jobMinExp.value + 2
         THEN ONE
         ELSE ONE - Mul((resumeExp.value - jobMinExp.value - 2) * ONE, 50)
    ELSE ONE - Min(800, Mul((jobMinExp.value - resumeExp.value) * ONE, 200))

\* without the cap of 0.8 on the penalty for a deficit
calculateExperienceScoreUncappedDeficit(resumeExp, jobMinExp) ==
    IF ~resumeExp.present \/ ~jobMinExp.present THEN ONE \div 2
    ELSE IF resumeExp.value >= jobMinExp.value
    THEN IF resumeExp.value <= jobMinExp.value + 2
         THEN ONE
         ELSE ONE - Min(300, Mul((resumeExp.value - jobMinExp.value - 2) * ONE, 50))
    ELSE ONE - Mul((jobMinExp.value - resumeExp.value) * ONE, 200)

calculateExperienceScore(resumeExp, jobMinExp) ==
    IF ~resumeExp.present \/ ~jobMinExp.present THEN ONE \div 2
    ELSE IF resumeExp.value >= jobMinExp.value
    THEN IF resumeExp.value <= jobMinExp.value + 2
         THEN ONE
         ELSE LET excess == resumeExp.value - jobMinExp.value - 2
                  penalty == Min(300, Mul(excess * ONE, 50))
              IN  ONE - penalty
    ELSE LET deficit == jobMinExp.value - resumeExp.value
             penalty == Min(800, Mul(deficit * ONE, 200))
         IN  ONE - penalty

\* the skills compared as written, without toLowerCase
skillsScoreCaseSensitive(resumeSkills, jobSkills) ==
    jaccardSimilarity(resumeSkills, jobSkills)

\* lines 95-98
skillsScore(resumeSkills, jobSkills) ==
    jaccardSimilarity([i \in 1..Len(resumeSkills) |-> toLowerCase(resumeSkills[i])],
                      [i \in 1..Len(jobSkills) |-> toLowerCase(jobSkills[i])])

\* with a location weight of 0.3, the weights summing to 1.2
calculateRuleBoostOverweight(resumeSkills, jobSkills, resumeExp, jobMinExp, sameLocation) ==
    LET expScore == calculateExperienceScore(resumeExp, jobMinExp)
        locationScore == IF sameLocation THEN ONE ELSE 800
    IN  Mul(600, skillsScore(resumeSkills, jobSkills))
          + Mul(300, expScore) + Mul(300, locationScore)

\* with the weights of the skills and of the experience exchanged
calculateRuleBoostSwapped(resumeSkills, jobSkills, resumeExp, jobMinExp, sameLocation) ==
    LET expScore == calculateExperienceScore(resumeExp, jobMinExp)
        locationScore == IF sameLocation THEN ONE ELSE 800
    IN  Mul(300, skillsScore(resumeSkills, jobSkills))
          + Mul(600, expScore) + Mul(100, locationScore)

calculateRuleBoost(resumeSkills, jobSkills, resumeExp, jobMinExp, sameLocation) ==
    LET expScore == calculateExperienceScore(resumeExp, jobMinExp)
        locationScore == IF sameLocation THEN ONE ELSE 800
    IN  Mul(600, skillsScore(resumeSkills, jobSkills))
          + Mul(300, expScore) + Mul(100, locationScore)

---------------------------------------------------------------------------
(* RankingService.calculateSemanticScore and calculateHybridScore *)

\* A method's outcome together with the callees it entered, in order
Outcome(res, entered) == [outcome |-> res, calls |-> entered]

\* the guard taking a vector of zeros for no embedding as well
NoEmbeddingOrZero(vec) ==
    \/ ~vec.present
    \/ Len(vec.value) = 0
    \/ \A i \in 1..Len(vec.value) : vec.value[i] = 0

\* the guard of line 80
NoEmbedding(vec) == ~vec.present \/ Len(vec.value) = 0

\* a failed similarity answered with 0 instead of passed on
calculateSemanticScoreCoercing(self, resumeVec, jobVec) ==
    IF NoEmbedding(resumeVec) \/ NoEmbedding(jobVec) THEN Outcome(Ok(0), <<>>)
    ELSE LET similarity == cosineSimilarity(resumeVec.value, jobVec.value)
         IN  Outcome(IF similarity.kind = "error" THEN Ok(0)
                     ELSE Ok(Div(similarity.value + ONE, 2 * ONE)),
                     <<"cosineSimilarity">>)

\* the similarity returned as it is, in [-1, 1]
calculateSemanticScoreUnscaled(self, resumeVec, jobVec) ==
    IF NoEmbedding(resumeVec) \/ NoEmbedding(jobVec) THEN Outcome(Ok(0), <<>>)
    ELSE Outcome(cosineSimilarity(resumeVec.value, jobVec.value), <<"cosineSimilarity">>)

\* the similarity shifted but not halved, in [0, 2]
calculateSemanticScoreShifted(self, resumeVec, jobVec) ==
    IF NoEmbedding(resumeVec) \/ NoEmbedding(jobVec) THEN Outcome(Ok(0), <<>>)
    ELSE LET similarity == cosineSimilarity(resumeVec.value, jobVec.value)
         IN  Outcome(IF similarity.kind = "error" THEN similarity
                     ELSE Ok(similarity.value + ONE),
                     <<"cosineSimilarity">>)

calculateSemanticScore(self, resumeVec, jobVec) ==
    IF NoEmbedding(resumeVec) \/ NoEmbedding(jobVec) THEN Outcome(Ok(0), <<>>)
    ELSE LET similarity == cosineSimilarity(resumeVec.value, jobVec.value)
         IN  Outcome(IF similarity.kind = "error" THEN similarity
                     ELSE Ok(Div(similarity.value + ONE, 2 * ONE)),
                     <<"cosineSimilarity">>)

\* the score as a percentage
ClampPercent(finalScore) == Max(0, Min(100 * ONE, 100 * finalScore))

\* Math.max(0, Math.min(1, finalScore)), line 46
Clamp(finalScore) == Max(0, Min(ONE, finalScore))

\* the sum with the lexical and semantic weights exchanged
WeightedSumSwapped(self, bm25Score, semanticScore, ruleBoost) ==
    Mul(self.semanticWeight, bm25Score)
      + Mul(self.bm25Weight, semanticScore)
      + Mul(self.ruleBoostWeight, ruleBoost)

\* lines 37-40
WeightedSum(self, bm25Score, semanticScore, ruleBoost) ==
    Mul(self.bm25Weight, bm25Score)
      + Mul(self.semanticWeight, semanticScore)
      + Mul(self.ruleBoostWeight, ruleBoost)

calculateHybridScore(self, a) ==
    LET bm25Score == calculateBM25Score(a.resumeText, a.jobText)
        semantic == calculateSemanticScore(self, a.resumeVec, a.jobVec)
        entered == <<"calculateBM25Score", "calculateSemanticScore">> \o semantic.calls
    IN  IF semantic.outcome.kind = "error"
        THEN Outcome(semantic.outcome, entered)
        ELSE LET semanticScore == semantic.outcome.value
                 ruleBoost == calculateRuleBoost(a.resumeSkills, a.jobSkills,
                                                 a.resumeExp, a.jobMinExp,
                                                 a.sameLocation)
                 finalScore == WeightedSum(self, bm25Score, semanticScore, ruleBoost)
             IN  Outcome(Ok([bm25 |-> bm25Score,
                             semantic |-> semanticScore,
                             rule_boost |-> ruleBoost,
                             final |-> Clamp(finalScore)]),
                         Append(entered, "calculateRuleBoost"))

---------------------------------------------------------------------------
(* The instances *)

embeddingDim == 384

\* new EmbeddingGenerator(), embeddings.ts 1-2
NewEmbeddingGenerator == [embeddingDim |-> embeddingDim]

bm25Weight == 400
semanticWeight == 500
ruleBoostWeight == 100

\* a constructor that takes the weights it is given, unvalidated
NewRankingServiceConfigurable(requested) ==
    [embeddingGenerator |-> NewEmbeddingGenerator,
     bm25Weight |-> IF requested.present THEN requested.value[1] ELSE bm25Weight,
     semanticWeight |-> IF requested.present THEN requested.value[2] ELSE semanticWeight,
     ruleBoostWeight |-> IF requested.present THEN requested.value[3] ELSE ruleBoostWeight]

\* new RankingService(...), part_002 10-14; the class declares no constructor, so
\* whatever the caller passes is dropped
NewRankingService(requested) ==
    [embeddingGenerator |-> NewEmbeddingGenerator,
     bm25Weight |-> bm25Weight,
     semanticWeight |-> semanticWeight,
     ruleBoostWeight |-> ruleBoostWeight]

Generators == {1, 2}

\* null, for a ref that holds a socket or a timer otherwise (both numbered from 1)
null == 0

\* the refs and the state of useWebSocket before its first render, with no
\* socket created and no timer set: use-websocket.ts 32-35
HookUnmounted ==
    /\ wsRef = null
    /\ reconnectTimeoutRef = null
    /\ reconnectAttemptsRef = 0
    /\ isConnected = FALSE
    /\ sockets = <<>>
    /\ timers = <<>>
    /\ mounted = FALSE
    /\ stopped = FALSE

\* nothing allocated, no call in progress, the hook not in use
NothingElse ==
    /\ heap = <<>>
    /\ tasks = <<>>
    /\ HookUnmounted

\* the state every specification starts from, but for the arguments of the
\* call about to be made
Constructed ==
    /\ op = "none"
    /\ result = NoValue
    /\ calls = <<>>
    /\ svc = NewRankingService(Missing)
    /\ gen = [g \in Generators |-> NewEmbeddingGenerator]
    /\ embedLog = <<>>
    /\ batch = [phase |-> "idle"]
    /\ NothingElse

---------------------------------------------------------------------------
(* Inputs: embeddings *)

Components == {-ONE, -400, 0, 300, ONE}

Vectors == UNION {[1..n -> Components] : n \in 0..MaxVecLen}

IsZeroVector(v) == \A i \in 1..Len(v) : v[i] = 0

---------------------------------------------------------------------------
(* A caller of cosineSimilarity *)

InitSim ==
    /\ Constructed
    /\ args \in [vec1 : Vectors, vec2 : Vectors]

CosineSimilarityCall ==
    /\ op = "none"
    /\ op' = "cosineSimilarity"
    /\ result' = cosineSimilarity(args.vec1, args.vec2)
    /\ calls' = <<"cosineSimilarity">>
    /\ UNCHANGED <<args, svc, gen, embedLog, batch, heap, tasks, hookVars>>

NextSim == CosineSimilarityCall

SpecSim == InitSim /\ [][NextSim]_vars

---------------------------------------------------------------------------
(* Properties of cosineSimilarity *)

SimReturned == op = "cosineSimilarity"

\* C3: cosineSimilarity fails with the length-mismatch error whenever the two
\* vectors differ in length, empty vectors included, and returns no number
C3_MismatchThrows ==
    (SimReturned /\ Len(args.vec1) # Len(args.vec2))
        => (result.kind = "error" /\ result = Thrown(MismatchMessage))

C3_Witness ==
    /\ SimReturned
    /\ Len(args.vec1) = 0
    /\ Len(args.vec2) = 2
    /\ result.kind = "error"

\* C6: cosineSimilarity returns exactly 0, and does not throw, whenever the
\* vectors have equal length and at least one of them is all zeros
C6_ZeroNormIsZero ==
    (/\ SimReturned
     /\ Len(args.vec1) = Len(args.vec2)
     /\ (IsZeroVector(args.vec1) \/ IsZeroVector(args.vec2)))
        => result = Ok(0)

C6_Witness ==
    /\ SimReturned
    /\ Len(args.vec1) = 2
    /\ Len(args.vec2) = 2
    /\ IsZeroVector(args.vec1)
    /\ ~IsZeroVector(args.vec2)
    /\ result = Ok(0)

\* C7: cosineSimilarity(a, b) is what cosineSimilarity(b, a) is: the same
\* number for equal lengths, a failure in both orders for unequal lengths
C7_Symmetric ==
    SimReturned =>
        /\ result = cosineSimilarity(args.vec2, args.vec1)
        /\ (Len(args.vec1) # Len(args.vec2) =>
                /\ result.kind = "error"
                /\ cosineSimilarity(args.vec2, args.vec1).kind = "error")

C7_Witness ==
    /\ SimReturned
    /\ Len(args.vec1) = 2
    /\ args.vec1 # args.vec2
    /\ result.kind = "ok"
    /\ result.value \notin {0, ONE, -ONE}

---------------------------------------------------------------------------
(* Inputs: texts *)

\* tab, space, "A", "a", "b"
TextChars == {9, 32, 65, 97, 98}

Strings == UNION {[1..n -> TextChars] : n \in 0..MaxTextLen}

Texts == {Missing} \cup {Given(str) : str \in Strings}

---------------------------------------------------------------------------
(* A caller of generateEmbedding *)

InitEmbed ==
    /\ Constructed
    /\ args \in [self : Generators, text : Texts]

GenerateEmbeddingCall ==
    /\ op = "none"
    /\ op' = "generateEmbedding"
    /\ result' = Ok(generateEmbedding(gen[args.self], args.text))
    /\ calls' = <<"generateEmbedding">>
    /\ UNCHANGED <<args, svc, gen, embedLog, batch, heap, tasks, hookVars>>

NextEmbed == GenerateEmbeddingCall

SpecEmbed == InitEmbed /\ [][NextEmbed]_vars

EmbedReturned == op = "generateEmbedding"

\* C9: generateEmbedding returns the all-zero vector of length 384 for an
\* empty, missing or whitespace-only text, and a vector of length 384 for every
\* other text
C9_BlankIsZeroVector ==
    EmbedReturned =>
        /\ result.kind = "ok"
        /\ Len(result.value) = 384
        /\ ((\/ ~args.text.present
             \/ \A i \in 1..Len(args.text.value) : IsWhitespace(args.text.value[i]))
                => \A k \in 1..384 : result.value[k] = 0)

C9_Witness ==
    /\ EmbedReturned
    /\ args.text = Given(<<32, 9>>)
    /\ result.value = [k \in 1..384 |-> 0]

---------------------------------------------------------------------------
(* A caller that embeds one text after another *)

\* missing, "", " ", "a", "b", "a b", "A  B"
SampleTexts ==
    {Missing, Given(<<>>), Given(<<32>>), Given(<<97>>), Given(<<98>>),
     Given(<<97, 32, 98>>), Given(<<65, 32, 32, 66>>)}

\* the texts embedded one after another: " ", "a", "b", "a b"
RepeatedTexts == {Given(<<32>>), Given(<<97>>), Given(<<98>>), Given(<<97, 32, 98>>)}

InitEmbedSeq ==
    /\ Constructed
    /\ args = <<>>

GenerateEmbeddingNext ==
    \E self \in Generators, text \in RepeatedTexts :
        /\ Len(embedLog) < MaxCalls
        /\ LET embedding == generateEmbedding(gen[self], text)
           IN  /\ result' = Ok(embedding)
               /\ embedLog' = Append(embedLog,
                                [self |-> self, text |-> text, embedding |-> embedding])
        /\ op' = "generateEmbedding"
        /\ args' = [self |-> self, text |-> text]
        /\ calls' = <<"generateEmbedding">>
        /\ UNCHANGED <<svc, gen, batch, heap, tasks, hookVars>>

NextEmbedSeq == GenerateEmbeddingNext

SpecEmbedSeq == InitEmbedSeq /\ [][NextEmbedSeq]_vars

---------------------------------------------------------------------------
(* generateBatchEmbeddings, embeddings.ts 17-19 *)

RECURSIVE AllSeqs(_, _)
AllSeqs(S, n) == IF n = 0 THEN {<<>>} ELSE AllSeqs(S, n - 1) \cup [1..n -> S]

\* the array Promise.all resolves with, by the order the promises settled in
PromiseAllBySettling(p) ==
    [k \in 1..Len(p.texts) |-> p.slots[p.order[k]].value]

\* the array Promise.all resolves with: the value of promise i at index i
PromiseAll(p) == [i \in 1..Len(p.texts) |-> p.slots[i].value]

InitBatch ==
    /\ Constructed
    /\ args \in [self : Generators, texts : AllSeqs(SampleTexts, MaxBatch)]

\* texts.map(...): one pending generateEmbedding promise per text
BatchStart ==
    /\ op = "none"
    /\ op' = "generateBatchEmbeddings"
    /\ batch' = [phase |-> "pending",
                 self |-> args.self,
                 texts |-> args.texts,
                 slots |-> [i \in 1..Len(args.texts) |-> NoValue],
                 order |-> <<>>]
    /\ calls' = <<"generateBatchEmbeddings">>
    /\ UNCHANGED <<args, result, svc, gen, embedLog, heap, tasks, hookVars>>

\* the promise of item i settles
BatchSettle ==
    \E i \in 1..MaxBatch + 1 :
        /\ batch.phase = "pending"
        /\ i <= Len(batch.texts)
        /\ batch.slots[i].kind = "none"
        /\ batch' = [batch EXCEPT
                        !.slots[i] = Ok(generateEmbedding(gen[batch.self], batch.texts[i])),
                        !.order = Append(@, i)]
        /\ calls' = Append(calls, "generateEmbedding")
        /\ UNCHANGED <<op, args, result, svc, gen, embedLog, heap, tasks, hookVars>>

\* Promise.all resolves once every promise has
BatchResolve ==
    /\ batch.phase = "pending"
    /\ \A i \in 1..Len(batch.texts) : batch.slots[i].kind = "ok"
    /\ result' = Ok(PromiseAll(batch))
    /\ batch' = [batch EXCEPT !.phase = "done"]
    /\ UNCHANGED <<op, args, calls, svc, gen, embedLog, heap, tasks, hookVars>>

NextBatch == BatchStart \/ BatchSettle \/ BatchResolve

SpecBatch == InitBatch /\ [][NextBatch]_vars

BatchReturned == op = "generateBatchEmbeddings" /\ batch.phase = "done"

\* C10: generateBatchEmbeddings returns one vector per text, in the order of
\* the texts, each equal to generateEmbedding of that text alone, whatever
\* the other items are and in whatever order the items were computed
C10_BatchIsPointwise ==
    BatchReturned =>
        /\ result.kind = "ok"
        /\ Len(result.value) = Len(args.texts)
        /\ \A i \in 1..Len(args.texts) :
              result.value[i] = generateEmbedding(gen[args.self], args.texts[i])

C10_Witness ==
    /\ BatchReturned
    /\ args.texts = <<Given(<<97>>), Given(<<98>>)>>
    /\ batch.order = <<2, 1>>
    /\ result.value[1] # result.value[2]

---------------------------------------------------------------------------
(* A caller of calculateHybridScore *)

RankComponents == {-ONE, 0, 300}

RankVectors ==
    {Missing} \cup {Given(v) : v \in UNION {[1..n -> RankComponents] : n \in 0..MaxVecLen}}

\* "abc abd" against "abc", and "" against "abc"
TextPairs ==
    {<<Given(<<97, 98, 99, 32, 97, 98, 100>>), Given(<<97, 98, 99>>)>>,
     <<Given(<<>>), Given(<<97, 98, 99>>)>>}

\* ["React", "node"] against ["react", "ts"], and [] against ["react"]
SkillPairs ==
    {<<<< <<82, 101, 97, 99, 116>>, <<110, 111, 100, 101>> >>,
       << <<114, 101, 97, 99, 116>>, <<116, 115>> >> >>,
     << <<>>, << <<114, 101, 97, 99, 116>> >> >>}

ExpPairs == {<<Missing, Given(3)>>, <<Given(10), Given(3)>>, <<Given(0), Given(5)>>}

HybridArgs ==
    {[resumeText |-> t[1], jobText |-> t[2],
      resumeVec |-> v1, jobVec |-> v2,
      resumeSkills |-> k[1], jobSkills |-> k[2],
      resumeExp |-> e[1], jobMinExp |-> e[2],
      sameLocation |-> loc] :
        t \in TextPairs, v1 \in RankVectors, v2 \in RankVectors,
        k \in SkillPairs, e \in ExpPairs, loc \in BOOLEAN}

InitRank ==
    /\ Constructed
    /\ args \in HybridArgs

CalculateHybridScoreCall ==
    /\ op = "none"
    /\ op' = "calculateHybridScore"
    /\ LET r == calculateHybridScore(svc, args)
       IN  /\ result' = r.outcome
           /\ calls' = r.calls
    /\ UNCHANGED <<args, svc, gen, embedLog, batch, heap, tasks, hookVars>>

NextRank == CalculateHybridScoreCall

SpecRank == InitRank /\ [][NextRank]_vars

HybridReturned == op = "calculateHybridScore"

BothGiven == args.resumeVec.present /\ args.jobVec.present

Count(seq, x) == Cardinality({i \in 1..Len(seq) : seq[i] = x})

\* C1: for two embeddings of equal length (and any texts, skills, experience
\* and location flag) calculateHybridScore returns a final score in [0, 1]
C1_FinalInUnitRange ==
    (/\ HybridReturned
     /\ BothGiven
     /\ Len(args.resumeVec.value) = Len(args.jobVec.value))
        => /\ result.kind = "ok"
           /\ result.value.final >= 0
           /\ result.value.final <= 1000

C1_Witness ==
    /\ HybridReturned
    /\ BothGiven
    /\ Len(args.resumeVec.value) = 2
    /\ Len(args.jobVec.value) = 2
    /\ result.kind = "ok"
    /\ result.value.semantic \notin {0, 500, 1000}
    /\ result.value.final > 0
    /\ result.value.final < 1000

\* C2: the final score is clamp(0.4*bm25 + 0.5*semantic + 0.1*rule_boost, 0, 1)
\* of the three components returned with it, and the weights sum to 1.0
C2_FinalIsWeightedSum ==
    (HybridReturned /\ result.kind = "ok") =>
        LET c == result.value
            sum == RoundDiv(400 * c.bm25, 1000)
                     + RoundDiv(500 * c.semantic, 1000)
                     + RoundDiv(100 * c.rule_boost, 1000)
        IN  /\ c.final = (IF sum < 0 THEN 0 ELSE IF sum > 1000 THEN 1000 ELSE sum)
            /\ svc.bm25Weight = 400
            /\ svc.semanticWeight = 500
            /\ svc.ruleBoostWeight = 100
            /\ svc.bm25Weight + svc.semanticWeight + svc.ruleBoostWeight = 1000

C2_Witness ==
    /\ HybridReturned
    /\ result.kind = "ok"
    /\ result.value.semantic > 500
    /\ result.value.rule_boost > 0
    /\ result.value.final
         = RoundDiv(500 * result.value.semantic, 1000)
             + RoundDiv(100 * result.value.rule_boost, 1000)

\* C4 as stated: whenever the two embeddings differ in length the call fails
\* with the mismatch error, after one attempt at the similarity
C4_AnyMismatchThrows ==
    (/\ HybridReturned
     /\ BothGiven
     /\ Len(args.resumeVec.value) # Len(args.jobVec.value))
        => /\ result = Thrown(MismatchMessage)
           /\ Count(calls, "cosineSimilarity") = 1

\* C4, amended: whenever the two embeddings differ in length and neither is
\* empty, the call fails with the mismatch error of cosineSimilarity and
\* returns no ScoreComponents; the similarity was attempted exactly once and
\* nothing ran after it
C4_NonEmptyMismatchThrows ==
    (/\ HybridReturned
     /\ BothGiven
     /\ Len(args.resumeVec.value) # Len(args.jobVec.value)
     /\ Len(args.resumeVec.value) > 0
     /\ Len(args.jobVec.value) > 0)
        => /\ result.kind = "error"
           /\ result = cosineSimilarity(args.resumeVec.value, args.jobVec.value)
           /\ result.message = "Vectors must have the same length"
           /\ Count(calls, "cosineSimilarity") = 1
           /\ calls[Len(calls)] = "cosineSimilarity"

C4_Witness ==
    /\ HybridReturned
    /\ BothGiven
    /\ Len(args.resumeVec.value) = 1
    /\ Len(args.jobVec.value) = 2
    /\ result.kind = "error"
    /\ calls = <<"calculateBM25Score", "calculateSemanticScore", "cosineSimilarity">>

---------------------------------------------------------------------------
(* Construction of the service, then a scoring call on it *)

RequestedWeight == {-100, 0, 100, 400, 500}

WeightRequests ==
    {Missing} \cup {Given(w) : w \in [1..3 -> RequestedWeight]}

ValidWeights(w) ==
    /\ \A i \in 1..3 : w[i] >= 0
    /\ w[1] + w[2] + w[3] = 1000

ServedCalls ==
    {a \in HybridArgs :
        /\ a.resumeVec = Given(<<300, -1000>>)
        /\ a.jobVec \in {Given(<<300, 300>>), Given(<<0>>)}
        /\ a.sameLocation}

InitConstruct ==
    /\ op = "none"
    /\ result = NoValue
    /\ calls = <<>>
    /\ svc = NoValue
    /\ gen = [g \in Generators |-> NewEmbeddingGenerator]
    /\ embedLog = <<>>
    /\ batch = [phase |-> "idle"]
    /\ NothingElse
    /\ args \in [requested : WeightRequests]

Construct ==
    /\ op = "none"
    /\ op' = "new RankingService"
    /\ svc' = NewRankingService(args.requested)
    /\ result' = Ok(svc')
    /\ calls' = <<>>
    /\ UNCHANGED <<args, gen, embedLog, batch, heap, tasks, hookVars>>

ServeScoringCall ==
    \E a \in ServedCalls :
        /\ op = "new RankingService"
        /\ result.kind = "ok"
        /\ op' = "calculateHybridScore"
        /\ args' = a @@ args
        /\ LET r == calculateHybridScore(svc, a)
           IN  /\ result' = r.outcome
               /\ calls' = r.calls
        /\ UNCHANGED <<svc, gen, embedLog, batch, heap, tasks, hookVars>>

NextConstruct == Construct \/ ServeScoringCall

SpecConstruct == InitConstruct /\ [][NextConstruct]_vars

---------------------------------------------------------------------------
(* A caller of calculateBM25Score *)

\* "abc", "ABC", "abd", "ab", "?!"
Vocabulary ==
    {<<97, 98, 99>>, <<65, 66, 67>>, <<97, 98, 100>>, <<97, 98>>, <<63, 33>>}

\* the words with one space between them
RECURSIVE JoinWords(_)
JoinWords(words) ==
    IF Len(words) = 0 THEN <<>>
    ELSE IF Len(words) = 1 THEN words[1]
    ELSE words[1] \o <<32>> \o JoinWords(Tail(words))

BM25Texts ==
    {Missing} \cup {Given(JoinWords(words)) : words \in AllSeqs(Vocabulary, MaxWords)}

InitBM25 ==
    /\ Constructed
    /\ args \in [resumeText : BM25Texts, jobText : BM25Texts]

CalculateBM25ScoreCall ==
    /\ op = "none"
    /\ op' = "calculateBM25Score"
    /\ result' = Ok(calculateBM25Score(args.resumeText, args.jobText))
    /\ calls' = <<"calculateBM25Score">>
    /\ UNCHANGED <<args, svc, gen, embedLog, batch, heap, tasks, hookVars>>

NextBM25 == CalculateBM25ScoreCall

SpecBM25 == InitBM25 /\ [][NextBM25]_vars

BM25Returned == op = "calculateBM25Score"

\* the text is missing, empty, or leaves no token
NoTokens(text) ==
    \/ ~text.present
    \/ Len(text.value) = 0
    \/ Len(tokenize(text.value)) = 0

\* C11: calculateBM25Score returns exactly 0, and does not throw, whenever
\* either text is empty or missing or leaves no token (only punctuation, or
\* only words of at most 2 characters)
C11_NoTokensIsZero ==
    (BM25Returned /\ (NoTokens(args.resumeText) \/ NoTokens(args.jobText)))
        => result = Ok(0)

C11_Witness ==
    /\ BM25Returned
    /\ args.resumeText = Given(<<97, 98, 99>>)
    /\ args.jobText = Given(<<63, 33, 32, 97, 98>>)
    /\ result = Ok(0)

\* C12: calculateBM25Score returns a value in [0, 1] for every pair of texts;
\* it is never negative
C12_BM25InUnitRange ==
    BM25Returned =>
        /\ result.kind = "ok"
        /\ result.value >= 0
        /\ result.value <= 1000

C12_Witness ==
    /\ BM25Returned
    /\ args.resumeText = Given(<<97, 98, 99, 32, 97, 98, 99>>)
    /\ args.jobText = Given(<<65, 66, 67, 32, 97, 98, 100>>)
    /\ result = Ok(0)

---------------------------------------------------------------------------
(* The experience score *)

Exps == {Missing} \cup {Given(n) : n \in 0..MaxExp}

InitExp ==
    /\ Constructed
    /\ args \in [resumeExp : Exps, jobMinExp : Exps]

CalculateExperienceScoreCall ==
    /\ op = "none"
    /\ op' = "calculateExperienceScore"
    /\ result' = Ok(calculateExperienceScore(args.resumeExp, args.jobMinExp))
    /\ calls' = <<"calculateExperienceScore">>
    /\ UNCHANGED <<args, svc, gen, embedLog, batch, heap, tasks, hookVars>>

NextExp == CalculateExperienceScoreCall

SpecExp == InitExp /\ [][NextExp]_vars

ExpReturned == op = "calculateExperienceScore"

BothExpGiven == args.resumeExp.present /\ args.jobMinExp.present

\* C15: the experience score is exactly 0.5 whenever either value is absent,
\* whatever the other is; a value of 0 that is present is not taken for an
\* absent one
C15_AbsentIsNeutral ==
    ExpReturned =>
        /\ (~BothExpGiven => result = Ok(500))
        /\ ((BothExpGiven /\ (args.resumeExp.value = 0 \/ args.jobMinExp.value = 0))
                => (result.kind = "ok" /\ result.value # 500))

C15_Witness ==
    /\ ExpReturned
    /\ args.resumeExp = Given(0)
    /\ ~args.jobMinExp.present
    /\ result = Ok(500)

\* C16: for jobMinExp <= candidateExp <= jobMinExp + 2, both bounds included,
\* the experience score is exactly 1.0
C16_IdealBandIsOne ==
    (/\ ExpReturned
     /\ BothExpGiven
     /\ args.jobMinExp.value <= args.resumeExp.value
     /\ args.resumeExp.value <= args.jobMinExp.value + 2)
        => result = Ok(1000)

C16_Witness ==
    /\ ExpReturned
    /\ args.jobMinExp = Given(3)
    /\ args.resumeExp = Given(5)
    /\ result = Ok(1000)

\* C17: for candidateExp > jobMinExp + 2 the experience score is
\* 1 - min(0.3, 0.05 * (candidateExp - jobMinExp - 2)): 0.75 for 3 and 10,
\* 0.7 from 6 years of excess on, never below 0.7
C17_ExcessPenalty ==
    (/\ ExpReturned
     /\ BothExpGiven
     /\ args.resumeExp.value > args.jobMinExp.value + 2)
        => LET excess == args.resumeExp.value - args.jobMinExp.value - 2
           IN  /\ result.kind = "ok"
               /\ result.value = 1000 - (IF 50 * excess < 300 THEN 50 * excess ELSE 300)
               /\ result.value >= 700
               /\ (excess >= 6 => result.value = 700)
               /\ (excess < 6 => result.value = 1000 - 50 * excess)
               /\ ((args.jobMinExp.value = 3 /\ args.resumeExp.value = 10)
                      => result.value = 750)

C17_Witness ==
    /\ ExpReturned
    /\ args.jobMinExp = Given(1)
    /\ args.resumeExp = Given(10)
    /\ result = Ok(700)

---------------------------------------------------------------------------
(* The skill component of the rule boost *)

\* "a", "A", "b"
SkillNames == {<<97>>, <<65>>, <<98>>}

SkillLists == AllSeqs(SkillNames, MaxSkills)

InitSkills ==
    /\ Constructed
    /\ args \in [resumeSkills : SkillLists, jobSkills : SkillLists]

SkillsScoreCall ==
    /\ op = "none"
    /\ op' = "skillsScore"
    /\ result' = Ok(skillsScore(args.resumeSkills, args.jobSkills))
    /\ calls' = <<"jaccardSimilarity">>
    /\ UNCHANGED <<args, svc, gen, embedLog, batch, heap, tasks, hookVars>>

NextSkills == SkillsScoreCall

SpecSkills == InitSkills /\ [][NextSkills]_vars

SkillsReturned == op = "skillsScore"

\* the skills of a list as a set, letter case put aside
LoweredSet(skills) ==
    {[i \in 1..Len(s) |-> IF s[i] \in 65..90 THEN s[i] + 32 ELSE s[i]] :
        s \in {skills[k] : k \in 1..Len(skills)}}

\* C14: the skill component is |A n B| / |A u B| of the lower-cased skill
\* sets (letter case does not tell skills apart, a repeated skill counts
\* once); 1.0 when both lists are empty, 0.0 when exactly one is
C14_SkillsAreJaccard ==
    SkillsReturned =>
        LET A == LoweredSet(args.resumeSkills)
            B == LoweredSet(args.jobSkills)
        IN  /\ result.kind = "ok"
            /\ ((A = {} /\ B = {}) => result.value = 1000)
            /\ ((A = {}) # (B = {}) => result.value = 0)
            /\ ((A # {} /\ B # {}) =>
                    result.value
                      = RoundDiv(1000 * Cardinality(A \cap B), Cardinality(A \cup B)))

C14_Witness ==
    /\ SkillsReturned
    /\ args.resumeSkills = << <<65>>, <<97>> >>
    /\ args.jobSkills = << <<97>>, <<98>> >>
    /\ result = Ok(500)

---------------------------------------------------------------------------
(* A caller of calculateRuleBoost *)

\* "react", "node", "typescript"
RuleSkillNames ==
    {<<114, 101, 97, 99, 116>>, <<110, 111, 100, 101>>,
     <<116, 121, 112, 101, 115, 99, 114, 105, 112, 116>>}

ExpSamples == {Missing, Given(0), Given(3), Given(5), Given(10)}

InitRule ==
    /\ Constructed
    /\ args \in [resumeSkills : AllSeqs(RuleSkillNames, MaxSkills),
                 jobSkills : AllSeqs(RuleSkillNames, MaxSkills),
                 resumeExp : ExpSamples,
                 jobMinExp : ExpSamples,
                 sameLocation : BOOLEAN]

CalculateRuleBoostCall ==
    /\ op = "none"
    /\ op' = "calculateRuleBoost"
    /\ result' = Ok(calculateRuleBoost(args.resumeSkills, args.jobSkills,
                                       args.resumeExp, args.jobMinExp,
                                       args.sameLocation))
    /\ calls' = <<"jaccardSimilarity", "calculateExperienceScore">>
    /\ UNCHANGED <<args, svc, gen, embedLog, batch, heap, tasks, hookVars>>

NextRule == CalculateRuleBoostCall

SpecRule == InitRule /\ [][NextRule]_vars

RuleReturned == op = "calculateRuleBoost"

\* C13: calculateRuleBoost returns a value in [0, 1] for all skill lists,
\* experience values present or absent, and either location flag
C13_RuleBoostInUnitRange ==
    RuleReturned =>
        /\ result.kind = "ok"
        /\ result.value >= 0
        /\ result.value <= 1000

C13_Witness ==
    /\ RuleReturned
    /\ args.resumeSkills = <<>>
    /\ args.jobSkills = <<>>
    /\ args.resumeExp = Given(3)
    /\ args.jobMinExp = Given(3)
    /\ args.sameLocation
    /\ result = Ok(1000)

\* C19: calculateRuleBoost is 0.6*skillScore + 0.3*expScore + 0.1*locationScore
\* with locationScore 1.0 for the same location and 0.8 otherwise; the weights
\* sum to 1.0; {react, node} against {react, typescript} with 5 years for a
\* minimum of 3 in the same location gives 0.6
C19_RuleBoostIsWeightedSum ==
    RuleReturned =>
        LET skill == skillsScore(args.resumeSkills, args.jobSkills)
            exp == calculateExperienceScore(args.resumeExp, args.jobMinExp)
            location == IF args.sameLocation THEN 1000 ELSE 800
        IN  /\ result.kind = "ok"
            /\ result.value
                 = RoundDiv(600 * skill, 1000) + RoundDiv(300 * exp, 1000)
                     + RoundDiv(100 * location, 1000)
            /\ 600 + 300 + 100 = 1000
            /\ ((/\ args.resumeSkills = << <<114, 101, 97, 99, 116>>, <<110, 111, 100, 101>> >>
                 /\ args.jobSkills = << <<114, 101, 97, 99, 116>>,
                                        <<116, 121, 112, 101, 115, 99, 114, 105, 112, 116>> >>
                 /\ args.resumeExp = Given(5)
                 /\ args.jobMinExp = Given(3)
                 /\ args.sameLocation)
                    => result.value = 600)

C19_Witness ==
    /\ RuleReturned
    /\ args.resumeSkills = << <<114, 101, 97, 99, 116>>, <<110, 111, 100, 101>> >>
    /\ args.jobSkills = << <<114, 101, 97, 99, 116>>,
                           <<116, 121, 112, 101, 115, 99, 114, 105, 112, 116>> >>
    /\ args.resumeExp = Given(5)
    /\ args.jobMinExp = Given(3)
    /\ args.sameLocation
    /\ result = Ok(600)

---------------------------------------------------------------------------
(* A caller of tokenize *)

\* " ", "-", "_", "ab", "Cd1"
Pieces == {<<32>>, <<45>>, <<95>>, <<97, 98>>, <<67, 100, 49>>}

RECURSIVE Concat(_)
Concat(pieces) ==
    IF Len(pieces) = 0 THEN <<>> ELSE Head(pieces) \o Concat(Tail(pieces))

TokenizeTexts == {Concat(pieces) : pieces \in AllSeqs(Pieces, MaxPieces)}

InitTok ==
    /\ Constructed
    /\ args \in [text : TokenizeTexts]

TokenizeCall ==
    /\ op = "none"
    /\ op' = "tokenize"
    /\ result' = Ok(tokenize(args.text))
    /\ calls' = <<"tokenize">>
    /\ UNCHANGED <<args, svc, gen, embedLog, batch, heap, tasks, hookVars>>

NextTok == TokenizeCall

SpecTok == InitTok /\ [][NextTok]_vars

TokReturned == op = "tokenize"

Letters == (65..90) \cup (97..122)
Digits == 48..57

\* the maximal runs of units of Class in str that are longer than 2, as pairs
\* of their first and last position
LongRuns(str, Class) ==
    {r \in (1..Len(str)) \X (1..Len(str)) :
        /\ r[1] + 2 <= r[2]
        /\ \A k \in r[1]..r[2] : str[k] \in Class
        /\ (r[1] = 1 \/ str[r[1] - 1] \notin Class)
        /\ (r[2] = Len(str) \/ str[r[2] + 1] \notin Class)}

\* those runs in the order of the text, each in lower case
RunsInOrder(str, Class) ==
    LET runs == LongRuns(str, Class)
        nth(k) == CHOOSE r \in runs : Cardinality({q \in runs : q[1] < r[1]}) = k - 1
    IN  [k \in 1..Cardinality(runs) |->
            [i \in 1..(nth(k)[2] - nth(k)[1] + 1) |->
                LET c == str[nth(k)[1] + i - 1]
                IN  IF c \in 65..90 THEN c + 32 ELSE c]]

\* C20 as stated: tokenize returns, in order and with duplicates, the maximal
\* runs of letters and digits of the lower-cased text that are longer than 2
C20_TokensAreAlnumRuns ==
    TokReturned => result = Ok(RunsInOrder(args.text, Letters \cup Digits))

\* C20, amended: tokenize returns, in order and with duplicates, the maximal
\* runs of letters, digits and underscores of the lower-cased text that are
\* longer than 2; every token is lower-case, holds only letters, digits and
\* underscores, and is longer than 2
C20_TokensAreWordRuns ==
    TokReturned =>
        /\ result = Ok(RunsInOrder(args.text, Letters \cup Digits \cup {95}))
        /\ \A k \in 1..Len(result.value) :
              /\ Len(result.value[k]) > 2
              /\ \A i \in 1..Len(result.value[k]) :
                    result.value[k][i] \in (97..122) \cup Digits \cup {95}

C20_Witness ==
    /\ TokReturned
    /\ args.text = <<67, 100, 49, 95, 32, 67, 100, 49>>
    /\ result = Ok(<< <<99, 100, 49, 95>>, <<99, 100, 49>> >>)

---------------------------------------------------------------------------
(* The arrays of a call in memory: what each operation allocates and writes *)

\* a new array, at a reference no array had
Alloc(h, array) == [heap |-> Append(h, array), ref |-> Len(h) + 1]

\* the skills lower-cased where they are (forEach((s, i) => skills[i] = ...))
LowerCaseInPlace(h, ref) ==
    [heap |-> [h EXCEPT ![ref] = [i \in 1..Len(@) |-> toLowerCase(@[i])]],
     ref |-> ref]

\* skills.map(s => s.toLowerCase()), part_002 96-97: map returns a new array
MapToLowerCase(h, ref) ==
    Alloc(h, [i \in 1..Len(h[ref]) |-> toLowerCase(h[ref][i])])

\* the elements of an array, each once, in the order of their first occurrence
\* ([...new Set(array)])
Distinct(array) ==
    LET first == {i \in 1..Len(array) : \A j \in 1..(i - 1) : array[j] # array[i]}
        nth(k) == CHOOSE i \in first : Cardinality({j \in first : j < i}) = k - 1
    IN  [k \in 1..Cardinality(first) |-> array[nth(k)]]

\* jaccardSimilarity, part_002 122-132: it reads set1 and set2 and spreads the
\* Sets built from them into arrays of its own
HeapAfterJaccard(h, set1, set2) ==
    IF Len(h[set1]) = 0 \/ Len(h[set2]) = 0 THEN h
    ELSE LET s1 == Distinct(h[set1])
             s2 == Distinct(h[set2])
             spread == Alloc(h, s1)
         IN  Alloc(spread.heap, Distinct(s1 \o s2)).heap

\* calculateRuleBoost, part_002 88-104
HeapAfterRuleBoost(h, resumeSkills, jobSkills) ==
    LET lowered1 == MapToLowerCase(h, resumeSkills)
        lowered2 == MapToLowerCase(lowered1.heap, jobSkills)
    IN  HeapAfterJaccard(lowered2.heap, lowered1.ref, lowered2.ref)

\* tokenize, part_002 106-112: the text is a string, which nothing can write
\* to; split and filter each return a new array
HeapAfterTokenize(h, text) ==
    LET pieces == SplitWhitespace(ReplacePunctuation(toLowerCase(text)))
        split == Alloc(h, pieces)
    IN  Alloc(split.heap, SelectSeq(pieces, LAMBDA token : Len(token) > 2)).heap

\* calculateBM25Score, part_002 50-77
HeapAfterBM25(h, resumeText, jobText) ==
    IF \/ ~resumeText.present \/ resumeText.value = <<>>
       \/ ~jobText.present \/ jobText.value = <<>>
    THEN h
    ELSE HeapAfterTokenize(HeapAfterTokenize(h, resumeText.value), jobText.value)

\* calculateHybridScore, part_002 16-48: cosineSimilarity only reads the two
\* vectors; when it throws, calculateRuleBoost is not reached
HeapAfterHybrid(h, self, a) ==
    LET lexical == HeapAfterBM25(h, a.resumeText, a.jobText)
        semantic == calculateSemanticScore(self, Given(h[a.resumeVec]), Given(h[a.jobVec]))
    IN  IF semantic.outcome.kind = "error" THEN lexical
        ELSE HeapAfterRuleBoost(lexical, a.resumeSkills, a.jobSkills)

\* generateEmbedding, embeddings.ts 4-15 and 43-63: the array of words, the
\* array the loop writes to, and the array map returns when the norm is not 0
EmbeddingAlloc(h, self, text) ==
    IF IsBlank(text) THEN Alloc(h, ZeroArray(self.embeddingDim))
    ELSE LET words == SplitWhitespace(toLowerCase(text.value))
             split == Alloc(h, words)
             embedding == Alloc(split.heap,
                                Accumulate(words, Len(words), self.embeddingDim))
             norm == Sqrt(SumSquares(embedding.heap[embedding.ref], 1, self.embeddingDim))
         IN  IF norm > 0
             THEN Alloc(embedding.heap, Normalize(embedding.heap[embedding.ref]))
             ELSE embedding

---------------------------------------------------------------------------
(* A caller that keeps the arrays it passes *)

\* [], ["A"], ["b"], ["A", "b"], ...
FrameSkillLists == AllSeqs({<<65>>, <<98>>}, MaxSkills)

FrameVectorPairs ==
    {<< <<300, -ONE>>, <<300, 300>> >>, << <<0, 0>>, <<300>> >>, << <<>>, <<-ONE>> >>}

\* "Abc abd" against "ABC", and " a B" against ""
FrameTextPairs ==
    {<<Given(<<65, 98, 99, 32, 97, 98, 100>>), Given(<<65, 66, 67>>)>>,
     <<Given(<<32, 97, 32, 66>>), Given(<<>>)>>}

\* the arrays are passed by reference: resumeVec, jobVec, resumeSkills and
\* jobSkills are the first four arrays in memory
InitFrame ==
    /\ op = "none"
    /\ result = NoValue
    /\ calls = <<>>
    /\ svc = NewRankingService(Missing)
    /\ gen = [g \in Generators |-> NewEmbeddingGenerator]
    /\ embedLog = <<>>
    /\ batch = [phase |-> "idle"]
    /\ tasks = <<>>
    /\ HookUnmounted
    /\ \E v \in FrameVectorPairs, k1s \in FrameSkillLists, k2s \in FrameSkillLists :
          heap = <<v[1], v[2], k1s, k2s>>
    /\ \E t \in FrameTextPairs :
          args = [resumeText |-> t[1], jobText |-> t[2],
                  resumeVec |-> 1, jobVec |-> 2,
                  resumeSkills |-> 3, jobSkills |-> 4,
                  resumeExp |-> Given(5), jobMinExp |-> Given(3),
                  sameLocation |-> TRUE]

\* the arguments of calculateHybridScore with the arrays read from memory
Deref(h, a) ==
    [a EXCEPT !.resumeVec = Given(h[a.resumeVec]),
              !.jobVec = Given(h[a.jobVec]),
              !.resumeSkills = h[a.resumeSkills],
              !.jobSkills = h[a.jobSkills]]

FrameHybridScore ==
    /\ op = "none"
    /\ op' = "calculateHybridScore"
    /\ LET r == calculateHybridScore(svc, Deref(heap, args))
       IN  /\ result' = r.outcome
           /\ calls' = r.calls
    /\ heap' = HeapAfterHybrid(heap, svc, args)
    /\ UNCHANGED <<args, svc, gen, embedLog, batch, tasks, hookVars>>

FrameRuleBoost ==
    /\ op = "none"
    /\ op' = "calculateRuleBoost"
    /\ result' = Ok(calculateRuleBoost(heap[args.resumeSkills], heap[args.jobSkills],
                                       args.resumeExp, args.jobMinExp,
                                       args.sameLocation))
    /\ calls' = <<"jaccardSimilarity", "calculateExperienceScore">>
    /\ heap' = HeapAfterRuleBoost(heap, args.resumeSkills, args.jobSkills)
    /\ UNCHANGED <<args, svc, gen, embedLog, batch, tasks, hookVars>>

FrameBM25Score ==
    /\ op = "none"
    /\ op' = "calculateBM25Score"
    /\ result' = Ok(calculateBM25Score(args.resumeText, args.jobText))
    /\ calls' = <<"calculateBM25Score">>
    /\ heap' = HeapAfterBM25(heap, args.resumeText, args.jobText)
    /\ UNCHANGED <<args, svc, gen, embedLog, batch, tasks, hookVars>>

\* cosineSimilarity reads vec1[i] and vec2[i] and allocates nothing
FrameCosineSimilarity ==
    /\ op = "none"
    /\ op' = "cosineSimilarity"
    /\ result' = cosineSimilarity(heap[args.resumeVec], heap[args.jobVec])
    /\ calls' = <<"cosineSimilarity">>
    /\ UNCHANGED <<args, svc, gen, embedLog, batch, heap, tasks, hookVars>>

\* the result is the reference of the array returned
FrameGenerateEmbedding ==
    \E self \in Generators :
        /\ op = "none"
        /\ op' = "generateEmbedding"
        /\ LET r == EmbeddingAlloc(heap, gen[self], args.resumeText)
           IN  /\ heap' = r.heap
               /\ result' = Ok(r.ref)
        /\ calls' = <<"generateEmbedding">>
        /\ UNCHANGED <<args, svc, gen, embedLog, batch, tasks, hookVars>>

NextFrame ==
    \/ FrameHybridScore
    \/ FrameRuleBoost
    \/ FrameBM25Score
    \/ FrameCosineSimilarity
    \/ FrameGenerateEmbedding

SpecFrame == InitFrame /\ [][NextFrame]_vars

\* C21: no core operation writes to what it was passed: across
\* calculateHybridScore, calculateRuleBoost, calculateBM25Score,
\* cosineSimilarity and generateEmbedding, returning or failing, the texts and
\* the references passed stay what they were, and every array that was in
\* memory before the call (the two skill lists and the two vectors) has the
\* same elements in the same order and the same letter case after it
C21_InputsUnchanged ==
    [][/\ args' = args
       /\ Len(heap') >= Len(heap)
       /\ \A r \in 1..Len(heap) : heap'[r] = heap[r]]_vars

C21_Witness ==
    /\ op = "calculateRuleBoost"
    /\ heap[args.resumeSkills] = << <<65>>, <<98>> >>
    /\ heap[args.jobSkills] = << <<98>>, <<65>> >>
    /\ Len(heap) = 8
    /\ heap[5] = << <<97>>, <<98>> >>
    /\ result = Ok(1000)

---------------------------------------------------------------------------
(* Calls in progress at once: each call as the steps it takes, its locals its own *)

\* a local of a call, set
Bind(locals, name, value) == (name :> value) @@ locals

NoLocals == [name \in {} |-> 0]

NewTask(kind, self, a) ==
    [kind |-> kind, self |-> self, args |-> a, pc |-> "entry",
     locals |-> NoLocals, result |-> NoValue]

\* the intermediate scores kept in fields of the instance (this.bm25Score = ...)
\* and read back from there on lines 37-46
StepHybridSharedScratch(self, t) ==
    CASE t.pc = "entry" ->
            [self |-> Bind(self, "bm25Score",
                           calculateBM25Score(t.args.resumeText, t.args.jobText)),
             task |-> [t EXCEPT !.pc = "semantic"]]
      [] t.pc = "semantic" ->
            LET semantic == calculateSemanticScore(self, t.args.resumeVec, t.args.jobVec)
            IN  IF semantic.outcome.kind = "error"
                THEN [self |-> self,
                      task |-> [t EXCEPT !.pc = "done", !.result = semantic.outcome]]
                ELSE [self |-> Bind(self, "semanticScore", semantic.outcome.value),
                      task |-> [t EXCEPT !.pc = "ruleBoost"]]
      [] t.pc = "ruleBoost" ->
            [self |-> Bind(self, "ruleBoost",
                           calculateRuleBoost(t.args.resumeSkills, t.args.jobSkills,
                                              t.args.resumeExp, t.args.jobMinExp,
                                              t.args.sameLocation)),
             task |-> [t EXCEPT !.pc = "final"]]
      [] t.pc = "final" ->
            LET finalScore == WeightedSum(self, self.bm25Score, self.semanticScore,
                                          self.ruleBoost)
            IN  [self |-> self,
                 task |-> [t EXCEPT !.pc = "done",
                                    !.result = Ok([bm25 |-> self.bm25Score,
                                                   semantic |-> self.semanticScore,
                                                   rule_boost |-> self.ruleBoost,
                                                   final |-> Clamp(finalScore)])]]

\* one step of calculateHybridScore, part_002 27-47: line 27, line 28, lines
\* 29-35, lines 37-47. It reads the fields of the instance and writes only to
\* its own consts
StepHybrid(self, t) ==
    CASE t.pc = "entry" ->
            [self |-> self,
             task |-> [t EXCEPT !.pc = "semantic",
                                !.locals = Bind(@, "bm25Score",
                                                calculateBM25Score(t.args.resumeText,
                                                                   t.args.jobText))]]
      [] t.pc = "semantic" ->
            LET semantic == calculateSemanticScore(self, t.args.resumeVec, t.args.jobVec)
            IN  IF semantic.outcome.kind = "error"
                THEN [self |-> self,
                      task |-> [t EXCEPT !.pc = "done", !.result = semantic.outcome]]
                ELSE [self |-> self,
                      task |-> [t EXCEPT !.pc = "ruleBoost",
                                         !.locals = Bind(@, "semanticScore",
                                                         semantic.outcome.value)]]
      [] t.pc = "ruleBoost" ->
            [self |-> self,
             task |-> [t EXCEPT !.pc = "final",
                                !.locals = Bind(@, "ruleBoost",
                                                calculateRuleBoost(t.args.resumeSkills,
                                                                   t.args.jobSkills,
                                                                   t.args.resumeExp,
                                                                   t.args.jobMinExp,
                                                                   t.args.sameLocation))]]
      [] t.pc = "final" ->
            LET finalScore == WeightedSum(self, t.locals.bm25Score,
                                          t.locals.semanticScore, t.locals.ruleBoost)
            IN  [self |-> self,
                 task |-> [t EXCEPT !.pc = "done",
                                    !.result = Ok([bm25 |-> t.locals.bm25Score,
                                                   semantic |-> t.locals.semanticScore,
                                                   rule_boost |-> t.locals.ruleBoost,
                                                   final |-> Clamp(finalScore)])]]

\* one step of generateEmbedding, embeddings.ts 4-15 with 43-63: the test of
\* line 9, lines 44-46, one round of the loop of lines 48-52, lines 54-62
StepEmbed(self, t) ==
    CASE t.pc = "entry" ->
            IF IsBlank(t.args.text)
            THEN [self |-> self,
                  task |-> [t EXCEPT !.pc = "done",
                                     !.result = Ok(ZeroArray(self.embeddingDim))]]
            ELSE [self |-> self, task |-> [t EXCEPT !.pc = "split"]]
      [] t.pc = "split" ->
            [self |-> self,
             task |-> [t EXCEPT !.pc = "loop",
                                !.locals =
                                    Bind(Bind(Bind(@, "words",
                                                   SplitWhitespace(toLowerCase(t.args.text.value))),
                                              "embedding", ZeroArray(self.embeddingDim)),
                                         "next", 1)]]
      [] t.pc = "loop" ->
            IF t.locals.next <= Len(t.locals.words)
            THEN [self |-> self,
                  task |-> [t EXCEPT !.locals =
                                Bind(Bind(@, "embedding",
                                          HashWord(t.locals.embedding, t.locals.words,
                                                   t.locals.next, self.embeddingDim)),
                                     "next", t.locals.next + 1)]]
            ELSE [self |-> self, task |-> [t EXCEPT !.pc = "normalize"]]
      [] t.pc = "normalize" ->
            [self |-> self,
             task |-> [t EXCEPT !.pc = "done",
                                !.result = Ok(Normalize(t.locals.embedding))]]

\* "abc abd" against "abc" with equal vectors; vectors of unequal lengths; no
\* text, opposite vectors, other skills and years
ConcurrentHybridArgs ==
    {[resumeText |-> Given(<<97, 98, 99, 32, 97, 98, 100>>), jobText |-> Given(<<97, 98, 99>>),
      resumeVec |-> Given(<<300, 300>>), jobVec |-> Given(<<300, 300>>),
      resumeSkills |-> << <<82, 101, 97, 99, 116>> >>,
      jobSkills |-> << <<114, 101, 97, 99, 116>> >>,
      resumeExp |-> Given(5), jobMinExp |-> Given(3), sameLocation |-> TRUE],
     [resumeText |-> Given(<<97, 98, 99>>), jobText |-> Given(<<97, 98, 99>>),
      resumeVec |-> Given(<<300>>), jobVec |-> Given(<<300, 300>>),
      resumeSkills |-> <<>>, jobSkills |-> <<>>,
      resumeExp |-> Missing, jobMinExp |-> Given(3), sameLocation |-> FALSE],
     [resumeText |-> Given(<<>>), jobText |-> Given(<<97, 98, 99>>),
      resumeVec |-> Given(<<300, 0>>), jobVec |-> Given(<<-ONE, 0>>),
      resumeSkills |-> << <<110, 111, 100, 101>> >>,
      jobSkills |-> << <<114, 101, 97, 99, 116>> >>,
      resumeExp |-> Given(0), jobMinExp |-> Given(5), sameLocation |-> FALSE]}

\* " ", "a b"
ConcurrentTexts == {[text |-> Given(<<32>>)], [text |-> Given(<<97, 32, 98>>)]}

\* the calls made on the one RankingService and on the first EmbeddingGenerator
ConcurrentCalls ==
    {NewTask("calculateHybridScore", 1, a) : a \in ConcurrentHybridArgs}
      \cup {NewTask("generateEmbedding", 1, a) : a \in ConcurrentTexts}

InitConcurrent ==
    /\ op = "none"
    /\ args = <<>>
    /\ result = NoValue
    /\ calls = <<>>
    /\ svc = NewRankingService(Missing)
    /\ gen = [g \in Generators |-> NewEmbeddingGenerator]
    /\ embedLog = <<>>
    /\ batch = [phase |-> "idle"]
    /\ heap = <<>>
    /\ HookUnmounted
    /\ tasks \in [1..MaxTasks -> ConcurrentCalls]

\* a call to calculateHybridScore takes its next step
HybridStep ==
    \E i \in 1..MaxTasks + 1 :
        /\ i <= Len(tasks)
        /\ tasks[i].kind = "calculateHybridScore"
        /\ tasks[i].pc # "done"
        /\ LET next == StepHybrid(svc, tasks[i])
           IN  /\ svc' = next.self
               /\ tasks' = [tasks EXCEPT ![i] = next.task]
        /\ UNCHANGED <<op, args, result, calls, gen, embedLog, batch, heap, hookVars>>

\* a call to generateEmbedding takes its next step
EmbedStep ==
    \E i \in 1..MaxTasks + 1 :
        /\ i <= Len(tasks)
        /\ tasks[i].kind = "generateEmbedding"
        /\ tasks[i].pc # "done"
        /\ LET next == StepEmbed(gen[tasks[i].self], tasks[i])
           IN  /\ gen' = [gen EXCEPT ![tasks[i].self] = next.self]
               /\ tasks' = [tasks EXCEPT ![i] = next.task]
        /\ UNCHANGED <<op, args, result, calls, svc, embedLog, batch, heap, hookVars>>

NextConcurrent == HybridStep \/ EmbedStep

SpecConcurrent == InitConcurrent /\ [][NextConcurrent]_vars

\* what the call returns when nothing else runs
RunAlone(t) ==
    IF t.kind = "calculateHybridScore"
    THEN calculateHybridScore(NewRankingService(Missing), t.args).outcome
    ELSE Ok(generateEmbedding(NewEmbeddingGenerator, t.args.text))

\* C22: with several calculateHybridScore and generateEmbedding calls in
\* progress on the same instances, their steps interleaved in any order, each
\* call that has finished returned what it returns when run alone, and at
\* every moment the instance has the weights 0.4, 0.5 and 0.1 and the
\* generator the dimension 384 they were built with
C22_NoSharedState ==
    /\ \A i \in 1..Len(tasks) :
          tasks[i].pc = "done" => tasks[i].result = RunAlone(tasks[i])
    /\ svc = NewRankingService(Missing)
    /\ svc.bm25Weight = 400 /\ svc.semanticWeight = 500 /\ svc.ruleBoostWeight = 100
    /\ \A g \in Generators : gen[g] = NewEmbeddingGenerator /\ gen[g].embeddingDim = 384

C22_Witness ==
    /\ Len(tasks) >= 2
    /\ tasks[1].kind = "calculateHybridScore"
    /\ tasks[2].kind = "calculateHybridScore"
    /\ tasks[1].pc = "final"
    /\ tasks[2].pc = "done"
    /\ tasks[2].result.kind = "ok"
    /\ tasks[1].locals.semanticScore # tasks[2].result.value.semantic
    /\ tasks[1].locals.ruleBoost # tasks[2].result.value.rule_boost

---------------------------------------------------------------------------
(* Properties of the semantic component and of the clamp *)

\* C23 as stated: for every pair of embeddings passed to calculateHybridScore
\* the semantic component is (cosineSimilarity(candidateVec, jobVec) + 1) / 2
\* and lies in [0, 1]
C23_SemanticIsRescaledCosine ==
    (HybridReturned /\ BothGiven) =>
        LET similarity == cosineSimilarity(args.resumeVec.value, args.jobVec.value)
        IN  /\ result.kind = "ok"
            /\ similarity.kind = "ok"
            /\ result.value.semantic = RoundDiv(similarity.value + 1000, 2)
            /\ result.value.semantic >= 0
            /\ result.value.semantic <= 1000

\* C23, amended: for every pair of embeddings of the same length, not 0, the
\* semantic component is (cosineSimilarity(candidateVec, jobVec) + 1) / 2 and
\* lies in [0, 1]; a pair with a missing or empty embedding has the semantic
\* component 0 and no similarity is computed for it
C23_NonEmptySemanticIsRescaledCosine ==
    HybridReturned =>
        /\ ((/\ BothGiven
             /\ Len(args.resumeVec.value) = Len(args.jobVec.value)
             /\ Len(args.resumeVec.value) > 0) =>
                LET similarity == cosineSimilarity(args.resumeVec.value, args.jobVec.value)
                IN  /\ result.kind = "ok"
                    /\ similarity.kind = "ok"
                    /\ result.value.semantic = RoundDiv(similarity.value + 1000, 2)
                    /\ result.value.semantic >= 0
                    /\ result.value.semantic <= 1000
                    /\ Count(calls, "cosineSimilarity") = 1)
        /\ ((\/ ~args.resumeVec.present \/ ~args.jobVec.present
             \/ Len(args.resumeVec.value) = 0 \/ Len(args.jobVec.value) = 0) =>
                /\ result.kind = "ok"
                /\ result.value.semantic = 0
                /\ Count(calls, "cosineSimilarity") = 0)

C23_Witness ==
    /\ HybridReturned
    /\ args.resumeVec = Given(<<300, -1000>>)
    /\ args.jobVec = Given(<<300, 300>>)
    /\ result.kind = "ok"
    /\ result.value.semantic < 500
    /\ result.value.semantic > 0

\* C24: whenever calculateHybridScore returns, the weighted sum
\* 0.4*bm25 + 0.5*semantic + 0.1*rule_boost of the components it returns lies
\* in [0, 1] before the clamp, and final is that sum
C24_ClampNeverDecides ==
    (HybridReturned /\ result.kind = "ok") =>
        LET c == result.value
            sum == RoundDiv(400 * c.bm25, 1000)
                     + RoundDiv(500 * c.semantic, 1000)
                     + RoundDiv(100 * c.rule_boost, 1000)
        IN  /\ sum >= 0
            /\ sum <= 1000
            /\ c.final = sum

C24_Witness ==
    /\ HybridReturned
    /\ result.kind = "ok"
    /\ result.value.semantic = 1000
    /\ result.value.rule_boost > 500
    /\ result.value.final > 550

\* C27: the semantic component is exactly 0 when either embedding is missing
\* or has length 0, and exactly 0.5 when the two have the same length, not 0,
\* and at least one of them is all zeros
C27_MissingIsZeroBlankIsHalf ==
    HybridReturned =>
        /\ ((\/ ~args.resumeVec.present \/ ~args.jobVec.present
             \/ Len(args.resumeVec.value) = 0 \/ Len(args.jobVec.value) = 0) =>
                (result.kind = "ok" /\ result.value.semantic = 0))
        /\ ((/\ BothGiven
             /\ Len(args.resumeVec.value) = Len(args.jobVec.value)
             /\ Len(args.resumeVec.value) > 0
             /\ (IsZeroVector(args.resumeVec.value) \/ IsZeroVector(args.jobVec.value))) =>
                (result.kind = "ok" /\ result.value.semantic = 500))

C27_Witness ==
    /\ HybridReturned
    /\ args.resumeVec = Given(<<0, 0>>)
    /\ args.jobVec = Given(<<300, -1000>>)
    /\ result.kind = "ok"
    /\ result.value.semantic = 500

---------------------------------------------------------------------------
(* calculateHybridScore over the texts of the lexical score *)

\* equal vectors, no skills asked or offered, the years asked for, the same
\* location: the semantic component and the rule boost at their largest; and
\* opposite vectors, a skill not offered, no years given, another location
LexicalRest ==
    {[resumeVec |-> Given(<<300, 300>>), jobVec |-> Given(<<300, 300>>),
      resumeSkills |-> <<>>, jobSkills |-> <<>>,
      resumeExp |-> Given(3), jobMinExp |-> Given(3), sameLocation |-> TRUE],
     [resumeVec |-> Given(<<-ONE>>), jobVec |-> Given(<<300>>),
      resumeSkills |-> <<>>, jobSkills |-> << <<114, 101, 97, 99, 116>> >>,
      resumeExp |-> Missing, jobMinExp |-> Given(3), sameLocation |-> FALSE]}

InitLexical ==
    /\ Constructed
    /\ \E resumeText \in BM25Texts, jobText \in BM25Texts, rest \in LexicalRest :
          args = [resumeText |-> resumeText, jobText |-> jobText] @@ rest

NextLexical == CalculateHybridScoreCall

SpecLexical == InitLexical /\ [][NextLexical]_vars

\* C25: calculateBM25Score is 0 for every pair of texts, however many terms
\* they share, so the bm25 component of calculateHybridScore is 0 and its
\* final score is at most 0.5*1 + 0.1*1 = 0.6
C25_LexicalIsZero ==
    HybridReturned =>
        /\ calculateBM25Score(args.resumeText, args.jobText) = 0
        /\ result.kind = "ok"
        /\ result.value.bm25 = 0
        /\ result.value.final <= 600

C25_Witness ==
    /\ HybridReturned
    /\ args.resumeText = Given(<<97, 98, 99, 32, 97, 98, 100>>)
    /\ args.jobText = Given(<<65, 66, 67, 32, 97, 98, 100>>)
    /\ result.kind = "ok"
    /\ result.value.bm25 = 0
    /\ result.value.semantic = 1000
    /\ result.value.rule_boost = 1000
    /\ result.value.final = 600

---------------------------------------------------------------------------
(* generateEmbedding with the writes of its loop on record *)

\* "", "a", "software", "python", "Developer", "polygenelubricants": the hashes
\* 0, 97, 1319330215, -973197092, -80681014 and -2^31
BucketWords ==
    {<<>>, <<97>>,
     <<115, 111, 102, 116, 119, 97, 114, 101>>,
     <<112, 121, 116, 104, 111, 110>>,
     <<68, 101, 118, 101, 108, 111, 112, 101, 114>>,
     <<112, 111, 108, 121, 103, 101, 110, 101, 108, 117, 98, 114, 105, 99, 97, 110, 116, 115>>}

\* the words with one space between them: an empty word at either end is
\* leading or trailing whitespace
BucketTexts == {Given(JoinWords(words)) : words \in AllSeqs(BucketWords, MaxWords)}

\* the hash and the index of lines 49-50, word by word; none for a blank text,
\* which does not reach hashBasedEmbedding
BucketWrites(self, text) ==
    IF IsBlank(text) THEN <<>>
    ELSE LET words == SplitWhitespace(toLowerCase(text.value))
         IN  [n \in 1..Len(words) |->
                 [word |-> words[n],
                  hash |-> simpleHash(words[n]),
                  index |-> BucketIndex(simpleHash(words[n]), self.embeddingDim)]]

InitBucket ==
    /\ Constructed
    /\ args \in [self : Generators, text : BucketTexts]

GenerateEmbeddingTraced ==
    /\ op = "none"
    /\ op' = "generateEmbedding"
    /\ LET embedding == generateEmbedding(gen[args.self], args.text)
       IN  /\ result' = Ok(embedding)
           /\ embedLog' = <<[self |-> args.self, text |-> args.text,
                             embedding |-> embedding,
                             writes |-> BucketWrites(gen[args.self], args.text)]>>
    /\ calls' = <<"generateEmbedding">>
    /\ UNCHANGED <<args, svc, gen, batch, heap, tasks, hookVars>>

NextBucket == GenerateEmbeddingTraced

SpecBucket == InitBucket /\ [][NextBucket]_vars

\* C26: for every word of the text, the empty word of leading or trailing
\* whitespace and the words with a negative hash or the hash -2^31 included,
\* the hash is a 32-bit integer and the index |hash| mod 384 is an integer in
\* 0..383, so every write is inside the vector and the vector returned has 384
\* entries, each a number
C26_BucketInRange ==
    EmbedReturned =>
        /\ \A n \in 1..Len(embedLog[1].writes) :
              /\ embedLog[1].writes[n].hash >= -2147483647 - 1
              /\ embedLog[1].writes[n].hash <= 2147483647
              /\ embedLog[1].writes[n].index \in 0..383
        /\ result.kind = "ok"
        /\ Len(result.value) = 384
        /\ \A k \in 1..384 : result.value[k] >= 0 /\ result.value[k] <= 1000

C26_Witness ==
    /\ EmbedReturned
    /\ Len(embedLog[1].writes) = 2
    /\ embedLog[1].writes[1].word = <<>>
    /\ embedLog[1].writes[1].index = 0
    /\ embedLog[1].writes[2].hash = -2147483647 - 1
    /\ embedLog[1].writes[2].index = 128
    /\ result.value[129] > 0

---------------------------------------------------------------------------
(* A caller that embeds two texts and scores the embeddings against each other *)

\* "a", "B"
GeneratedWords == {<<97>>, <<66>>}

\* no text, " ", " a", and the words with one space between them
GeneratedTexts ==
    {Missing, Given(<<32>>), Given(<<32, 97>>)}
      \cup {Given(JoinWords(words)) : words \in AllSeqs(GeneratedWords, MaxWords)}

InitGenerated ==
    /\ Constructed
    /\ args \in [resumeText : GeneratedTexts, jobText : GeneratedTexts]

\* generateEmbedding of the resume text, then of the job text
EmbedNextText ==
    /\ Len(embedLog) < 2
    /\ LET text == IF Len(embedLog) = 0 THEN args.resumeText ELSE args.jobText
           embedding == generateEmbedding(svc.embeddingGenerator, text)
       IN  /\ result' = Ok(embedding)
           /\ embedLog' = Append(embedLog, [text |-> text, embedding |-> embedding])
    /\ op' = "generateEmbedding"
    /\ calls' = <<"generateEmbedding">>
    /\ UNCHANGED <<args, svc, gen, batch, heap, tasks, hookVars>>

\* calculateHybridScore of the two texts with their embeddings
ScoreGenerated ==
    /\ Len(embedLog) = 2
    /\ op = "generateEmbedding"
    /\ op' = "calculateHybridScore"
    /\ LET r == calculateHybridScore(svc,
                    [resumeText |-> args.resumeText, jobText |-> args.jobText,
                     resumeVec |-> Given(embedLog[1].embedding),
                     jobVec |-> Given(embedLog[2].embedding),
                     resumeSkills |-> <<>>, jobSkills |-> <<>>,
                     resumeExp |-> Missing, jobMinExp |-> Missing,
                     sameLocation |-> FALSE])
       IN  /\ result' = r.outcome
           /\ calls' = r.calls
    /\ UNCHANGED <<args, svc, gen, embedLog, batch, heap, tasks, hookVars>>

NextGenerated == EmbedNextText \/ ScoreGenerated

SpecGenerated == InitGenerated /\ [][NextGenerated]_vars

\* C28: every vector generateEmbedding returns has only non-negative
\* components, so the cosine similarity of the embeddings of any two texts is
\* at least 0 and the semantic component computed from them is in [0.5, 1]
C28_GeneratedSemanticAtLeastHalf ==
    /\ \A n \in 1..Len(embedLog) :
          \A k \in 1..Len(embedLog[n].embedding) : embedLog[n].embedding[k] >= 0
    /\ HybridReturned =>
          LET similarity == cosineSimilarity(embedLog[1].embedding, embedLog[2].embedding)
          IN  /\ similarity.kind = "ok"
              /\ similarity.value >= 0
              /\ result.kind = "ok"
              /\ result.value.semantic >= 500
              /\ result.value.semantic <= 1000

C28_Witness ==
    /\ HybridReturned
    /\ args.resumeText = Given(<<97, 32, 66>>)
    /\ args.jobText = Given(<<32, 97>>)
    /\ result.kind = "ok"
    /\ result.value.semantic > 500
    /\ result.value.semantic < 1000

---------------------------------------------------------------------------
(* useWebSocket, use-websocket.ts 21-147 *)

\* what new WebSocket(wsUrl) returns, line 48. attempt marks a socket made by
\* a reconnect timer since the last open event or reconnect(), opened one
\* whose open event has fired
NewSocket(attempt) ==
    [readyState |-> "CONNECTING", attempt |-> attempt, opened |-> FALSE]

\* an open event or reconnect() has come: the attempts before it count no more
ForgetAttempts(ss) == [s \in 1..Len(ss) |-> [ss[s] EXCEPT !.attempt = FALSE]]

\* clearTimeout(reconnectTimeoutRef.current), lines 93-96: a timer that has
\* fired or was cleared stays as it is
TimersAfterClear(ts, ref) ==
    IF ref # null /\ ts[ref] = "pending" THEN [ts EXCEPT ![ref] = "cleared"] ELSE ts

\* wsRef.current.close(), lines 98-101: the socket starts closing, its close
\* event comes later; its handlers stay attached
SocketsAfterClose(ss, ref) ==
    IF ref # null /\ ss[ref].readyState \in {"CONNECTING", "OPEN"}
    THEN [ss EXCEPT ![ref].readyState = "CLOSING"]
    ELSE ss

\* the options of lines 22-30; reconnect is true and maxReconnectAttempts 5
\* when left out
HookOptions == [reconnect : BOOLEAN, maxReconnectAttempts : 0..MaxReconnect]

InitHook ==
    /\ op = "none"
    /\ result = NoValue
    /\ calls = <<>>
    /\ svc = NoValue
    /\ gen = [g \in Generators |-> NewEmbeddingGenerator]
    /\ embedLog = <<>>
    /\ batch = [phase |-> "idle"]
    /\ heap = <<>>
    /\ tasks = <<>>
    /\ HookUnmounted
    /\ args \in HookOptions

\* the effect of lines 124-130 runs: connect(). It runs on mount, and again,
\* after its cleanup and on the same refs, when connect or disconnect change
EffectSetup ==
    /\ ~mounted
    /\ Len(sockets) < MaxSockets
    /\ mounted' = TRUE
    /\ sockets' = Append(sockets, NewSocket(FALSE))
    /\ wsRef' = Len(sockets) + 1
    /\ stopped' = FALSE
    /\ UNCHANGED <<coreVars, heap, tasks, reconnectTimeoutRef, reconnectAttemptsRef,
                   isConnected, timers>>

\* the cleanups of lines 127-129 and 134-138: disconnect(), then the timer in
\* reconnectTimeoutRef cleared (disconnect has set it to null by then)
EffectCleanup ==
    /\ mounted
    /\ mounted' = FALSE
    /\ timers' = TimersAfterClear(timers, reconnectTimeoutRef)
    /\ reconnectTimeoutRef' = null
    /\ sockets' = SocketsAfterClose(sockets, wsRef)
    /\ wsRef' = null
    /\ isConnected' = FALSE
    /\ stopped' = TRUE
    /\ UNCHANGED <<coreVars, heap, tasks, reconnectAttemptsRef>>

\* the open event of a socket, lines 50-55
SocketOpens ==
    \E s \in 1..MaxSockets + 1 :
        /\ s <= Len(sockets)
        /\ sockets[s].readyState = "CONNECTING"
        /\ sockets' = ForgetAttempts([sockets EXCEPT ![s].readyState = "OPEN",
                                                      ![s].opened = TRUE])
        /\ isConnected' = TRUE
        /\ reconnectAttemptsRef' = 0
        /\ UNCHANGED <<coreVars, heap, tasks, wsRef, reconnectTimeoutRef, timers,
                       mounted, stopped>>

\* the error event of a socket, lines 82-85: the handler logs and calls
\* onError; the connection has failed and its close event follows
SocketErrors ==
    \E s \in 1..MaxSockets + 1 :
        /\ s <= Len(sockets)
        /\ sockets[s].readyState \in {"CONNECTING", "OPEN"}
        /\ sockets' = [sockets EXCEPT ![s].readyState = "CLOSING"]
        /\ UNCHANGED <<coreVars, heap, tasks, wsRef, reconnectTimeoutRef,
                       reconnectAttemptsRef, isConnected, timers, mounted, stopped>>

\* the close event of a socket, lines 66-80, whichever socket it is: the one
\* in wsRef or one the hook has let go of
SocketCloses ==
    \E s \in 1..MaxSockets + 1 :
        /\ s <= Len(sockets)
        /\ sockets[s].readyState # "CLOSED"
        /\ sockets' = [sockets EXCEPT ![s].readyState = "CLOSED"]
        /\ isConnected' = FALSE
        /\ IF args.reconnect /\ reconnectAttemptsRef < args.maxReconnectAttempts
           THEN /\ reconnectAttemptsRef' = reconnectAttemptsRef + 1
                /\ timers' = Append(timers, "pending")
                /\ reconnectTimeoutRef' = Len(timers) + 1
           ELSE UNCHANGED <<reconnectAttemptsRef, timers, reconnectTimeoutRef>>
        /\ UNCHANGED <<coreVars, heap, tasks, wsRef, mounted, stopped>>

\* a reconnect timer fires, lines 76-78: connect(), lines 45-90
TimerFires ==
    \E t \in 1..MaxSockets + 1 :
        /\ t <= Len(timers)
        /\ timers[t] = "pending"
        /\ Len(sockets) < MaxSockets
        /\ timers' = [timers EXCEPT ![t] = "fired"]
        /\ sockets' = Append(sockets, NewSocket(TRUE))
        /\ wsRef' = Len(sockets) + 1
        /\ UNCHANGED <<coreVars, heap, tasks, reconnectTimeoutRef, reconnectAttemptsRef,
                       isConnected, mounted, stopped>>

\* disconnect(), lines 92-104, called by the component
Disconnect ==
    /\ mounted
    /\ timers' = TimersAfterClear(timers, reconnectTimeoutRef)
    /\ reconnectTimeoutRef' = null
    /\ sockets' = SocketsAfterClose(sockets, wsRef)
    /\ wsRef' = null
    /\ isConnected' = FALSE
    /\ stopped' = TRUE
    /\ UNCHANGED <<coreVars, heap, tasks, reconnectAttemptsRef, mounted>>

\* reconnect(), lines 118-122: disconnect(), the count set to 0, connect()
ManualReconnect ==
    /\ mounted
    /\ Len(sockets) < MaxSockets
    /\ timers' = TimersAfterClear(timers, reconnectTimeoutRef)
    /\ reconnectTimeoutRef' = null
    /\ sockets' = Append(ForgetAttempts(SocketsAfterClose(sockets, wsRef)),
                         NewSocket(FALSE))
    /\ wsRef' = Len(sockets) + 1
    /\ isConnected' = FALSE
    /\ reconnectAttemptsRef' = 0
    /\ stopped' = FALSE
    /\ UNCHANGED <<coreVars, heap, tasks, mounted>>

NextHook ==
    \/ EffectSetup
    \/ EffectCleanup
    \/ SocketOpens
    \/ SocketErrors
    \/ SocketCloses
    \/ TimerFires
    \/ Disconnect
    \/ ManualReconnect

SpecHook == InitHook /\ [][NextHook]_vars

\* the sockets made by reconnect timers since the last open event or
\* reconnect()
AutoAttempts == {s \in 1..Len(sockets) : sockets[s].attempt}

\* those of them that have closed without having opened
FailedAttempts ==
    {s \in AutoAttempts : sockets[s].readyState = "CLOSED" /\ ~sockets[s].opened}

\* C29: with reconnect enabled, the automatic reconnect attempts made since
\* the last open event (or the last reconnect()) are never more than
\* maxReconnectAttempts, and once that many of them have ended in a close
\* without an open no reconnect timer is pending
C29_AttemptsBounded ==
    args.reconnect =>
        /\ Cardinality(AutoAttempts) <= args.maxReconnectAttempts
        /\ (Cardinality(FailedAttempts) >= args.maxReconnectAttempts =>
                \A t \in 1..Len(timers) : timers[t] # "pending")

\* C30: from disconnect(), called by the component or by the cleanup on
\* unmount, until reconnect() or the next mount, no WebSocket is created:
\* neither by a reconnect timer that was pending nor after the close event of
\* the socket that disconnect() closed
C30_NoConnectAfterDisconnect ==
    [][(stopped /\ stopped') => Len(sockets') = Len(sockets)]_vars

====
